---- MODULE Spec2Model ----
(***************************************************************************)
(* A model of kraft's configuration resolution (kraft/config/config.py)    *)
(* and of its git version-source provider (kraft/lib/provider/git.py),     *)
(* with the manifest loader (load_yaml) and the launcher's option list     *)
(* (kraft/executor.py).                                                    *)
(*                                                                         *)
(* Text is a sequence of one-character strings; a Python value that may be *)
(* a str or a dict is a record [kind, str, keys] (see Str and Dict).       *)
(***************************************************************************)
EXTENDS Integers, Sequences, FiniteSets, TLC

VARIABLES
    \* load_config
    config_files,     \* ConfigDetails.config_files: the KraftFiles given to load_config
    working_dir,      \* basename of os.path.abspath(ConfigDetails.working_dir)
    environment,      \* ConfigDetails.environment: whether it is empty, and its KRAFT_PROJECT_NAME entry
    env_file,         \* the KRAFT_PROJECT_NAME entry of Environment.from_env_file(working_dir)
    processed_files,  \* load_config's processed_files, as far as the comprehension got
    pc,               \* where load_config is: "process", "merge", "done" or "raised"
    raised,           \* the exception load_config raised ("" when none)
    config,           \* the Config load_config returned (NoConfig until then)
    \* get_default_config_files
    fs,               \* the accepted filenames that exist in each directory, by depth (0 is the root)
    base_dir,         \* the depth of the directory discovery starts in
    path,             \* find_candidates_in_parent_dirs' path, as a depth
    visited,          \* the directories whose content was looked at, in order
    candidates,       \* the candidates find_candidates_in_parent_dirs returned
    dpc,              \* where discovery is: "find", "found", "done" or "raised"
    draised,          \* the exception get_default_config_files raised
    found,            \* the list get_default_config_files returned
    \* git_probe_remote_versions
    source,           \* the source argument (NoSource for None)
    self_source,      \* GitLibraryProvider.source, the source the provider is bound to
    remote,           \* whether the first and the second git ls-remote succeed
    listing,          \* the lines git ls-remote prints when it succeeds
    lines,            \* the lines the for loop has still to take
    versions,         \* the versions dictionary
    ppc,              \* where the probe is: "call", "connect", "list", "loop", "returned" or "raised"
    praised,          \* the exception the probe raised
    \* GitLibraryProvider.is_type
    is_type_source,   \* the source argument (NoSource for None)
    work_trees,       \* the directories that hold a git repository
    reachable,        \* the arguments for which git ls-remote succeeds
    tried,            \* the checks is_type made, in order, with their argument
    tpc,              \* where is_type is: "call", "local", "remote", "returned" or "raised"
    treturn,          \* the value is_type returned
    traised,          \* the exception is_type raised
    \* KraftFile.from_filename and load_yaml
    filename,         \* the file to load
    outcomes,         \* what each read/parse attempt on the file ends with, in order
    encoding,         \* load_yaml's encoding argument in the current call
    binary,           \* load_yaml's binary argument in the current call
    attempts,         \* the attempts made so far: their encoding and mode
    ypc,              \* where the load is: "call", "returned" or "raised"
    yreturn,          \* the document load_yaml returned
    yraised,          \* the exception the load raised
    \* Executor
    self_kernel,      \* Executor._kernel
    self_platform,    \* Executor._platform
    self_cmd,         \* Executor._cmd, the option list
    calls,            \* the calls made on the Executor, in order
    cmd_before,       \* Executor._cmd as it was before the last call
    run_cmd,          \* the command the last execute() gave to subprocess.run
    eraised           \* the exception the last call raised

cvars == <<config_files, working_dir, environment, env_file, processed_files, pc, raised, config>>
dvars == <<fs, base_dir, path, visited, candidates, dpc, draised, found>>
pvars == <<source, self_source, remote, listing, lines, versions, ppc, praised>>
tvars == <<is_type_source, work_trees, reachable, tried, tpc, treturn, traised>>
yvars == <<filename, outcomes, encoding, binary, attempts, ypc, yreturn, yraised>>
evars == <<self_kernel, self_platform, self_cmd, calls, cmd_before, run_cmd, eraised>>
vars == <<cvars, dvars, pvars, tvars, yvars, evars>>

----------------------------------------------------------------------------
(* Bounds of the model.                                                    *)

MaxFiles == 2
MaxPopulated == 2
MaxNameLen == 2
MaxSpecLen == 3
MaxDepth == 3
MaxLines == 2

----------------------------------------------------------------------------
(* Text and Python values.                                                 *)

StringsUpTo(alphabet, n) == UNION {[1..k -> alphabet] : k \in 0..n}

Str(s) == [kind |-> "str", str |-> s, keys |-> {}]
Dict(ks) == [kind |-> "dict", str |-> <<>>, keys |-> ks]

\* Python's len() of a str or of a dict.
PyLen(v) == IF v.kind = "str" THEN Len(v.str) ELSE Cardinality(v.keys)

AsciiDigits == {"0", "1", "2", "3", "4", "5", "6", "7", "8", "9"}
\* \d of a Python 3 str pattern matches every Unicode decimal digit;
\* "U+0663" stands for ARABIC-INDIC DIGIT THREE.
UnicodeDigits == AsciiDigits \cup {"U+0663"}
LowerLetters ==
    {"a", "b", "c", "d", "e", "f", "g", "h", "i", "j", "k", "l", "m",
     "n", "o", "p", "q", "r", "s", "t", "u", "v", "w", "x", "y", "z"}

\* str.lower() on the characters the model uses.
LowerChar(c) ==
    CASE c = "A" -> "a"
      [] c = "M" -> "m"
      [] OTHER -> c

RECURSIVE lower(_)
lower(s) == IF s = <<>> THEN <<>> ELSE <<LowerChar(Head(s))>> \o lower(Tail(s))

----------------------------------------------------------------------------
(* KraftFile and its accessors.                                            *)

ComponentSections == <<"unikraft", "architectures", "platforms", "libraries", "run">>
Sections == {"name"} \cup {ComponentSections[i] : i \in 1..Len(ComponentSections)}

\* The value KraftFile.get_<section> gives for a key the document lacks.
SectionDefault(section) == IF section = "name" THEN Str(<<>>) ELSE Dict({})

\* KRAFT_SPEC_LATEST of kraft.const.
KRAFT_SPEC_LATEST == <<"0", ".", "4">>

\* $ of a Python pattern: the end of the string, or just before one
\* trailing newline.
AtDollar(rest) == rest = <<>> \/ rest = <<"\n">>

\* Variant: the pattern without its $ anchor.
version_pattern_match_unanchored(s) ==
    \E i \in 1..Len(s) : \A k \in 1..i : s[k] \in AsciiDigits

\* version_pattern.match(version) for ^[0-9]+(\.\d+)?$: ASCII digits, then
\* optionally a dot and decimal digits, then $.

version_pattern_match(s) ==
    \E i \in 1..Len(s) :
        /\ \A k \in 1..i : s[k] \in AsciiDigits
        /\ LET rest == SubSeq(s, i + 1, Len(s)) IN
             \/ AtDollar(rest)
             \/ \E j \in 2..Len(rest) :
                    /\ rest[1] = "."
                    /\ \A k \in 2..j : rest[k] \in UnicodeDigits
                    /\ AtDollar(SubSeq(rest, j + 1, Len(rest)))

\* KraftFile.version: [ok, value]; ok = FALSE when it raises KraftError.
version(file) ==
    IF ~file.has_specification
    THEN [ok |-> TRUE, value |-> KRAFT_SPEC_LATEST]
    ELSE IF ~version_pattern_match(file.specification)
    THEN [ok |-> FALSE, value |-> file.specification]
    ELSE [ok |-> TRUE, value |-> file.specification]

\* KraftFile.get_name, get_unikraft, get_architectures, ...: config.get(key, default).
get_section(file, section) == file.sections[section]

----------------------------------------------------------------------------
(* Validation and interpolation (kraft.config.validation, .interpolation): *)
(* a validator returns the value unchanged or raises; file.invalid names   *)
(* the validator that raises for this file ("none" when the file is valid),*)
(* "interpolation" when it is the interpolation of a section that raises.  *)

validate(file, stage) == file.invalid # stage

interpolate_environment_variables(ver, value, section, env) == value

\* Whether interpolate_environment_variables raises for a section of the file.
interpolation_raises(file) == file.invalid = "interpolation"

----------------------------------------------------------------------------
(* process_config_file.                                                    *)

ValidationError == "ValidationError"
InterpolationError == "InterpolationError"
SpecificationError == "KraftError: Specification is invalid"
CannotReadKraftfile == "CannotReadKraftfile"
NoError == ""

\* Variant: the whole document is not validated against the schema.
process_config_file_raise_no_schema(file) ==
    IF ~validate(file, "unikraft") THEN ValidationError
    ELSE IF ~version(file).ok THEN SpecificationError
    ELSE IF interpolation_raises(file) THEN InterpolationError
    ELSE IF \E s \in Sections \ {"unikraft"} : ~validate(file, s)
    THEN ValidationError
    ELSE NoError

\* The exception process_config_file raises for a file whose content is
\* not None (NoError when it returns).  Its stages in order: each
\* section is validated, and then interpolated with config_file.version.
\* process_unikraft is the first to evaluate config_file.version (the
\* unikraft value is a dict), so the property raises there, after the
\* unikraft validator and before every other one.
process_config_file_raise(file) ==
    IF ~validate(file, "unikraft") THEN ValidationError
    ELSE IF ~version(file).ok THEN SpecificationError
    ELSE IF interpolation_raises(file) THEN InterpolationError
    ELSE IF \E s \in (Sections \cup {"schema"}) \ {"unikraft"} : ~validate(file, s)
    THEN ValidationError
    ELSE NoError

\* The file process_config_file returns when nothing raises: the file
\* itself when its content is None, else a copy whose six sections hold
\* the processed values.
process_config_file(file, env) ==
    IF file.is_none THEN file
    ELSE [file EXCEPT !.sections =
            [s \in Sections |->
                interpolate_environment_variables(
                    version(file).value, get_section(file, s), s, env)]]

----------------------------------------------------------------------------
(* load_mapping, get_project_name, load_config.                            *)

\* Variant: the component sections merged key by key.
RECURSIVE load_mapping_union(_, _)
load_mapping_union(files, section) ==
    IF files = <<>> THEN Dict({})
    ELSE LET last == files[Len(files)]
             before == load_mapping_union(SubSeq(files, 1, Len(files) - 1), section)
         IN IF last.is_none THEN before
            ELSE IF section = "name" THEN get_section(last, section)
            ELSE Dict(before.keys \cup get_section(last, section).keys)

\* Variant: a file whose content is None empties the mapping.
RECURSIVE load_mapping_none_resets(_, _)
load_mapping_none_resets(files, section) ==
    IF files = <<>> THEN Dict({})
    ELSE LET last == files[Len(files)]
         IN IF ~last.is_none THEN get_section(last, section) ELSE Dict({})

\* mapping = {}; for config_file in config_files: if config_file.config is
\* not None: mapping = attr.  (No section value of the model is a list.)
RECURSIVE load_mapping(_, _)
load_mapping(files, section) ==
    IF files = <<>> THEN Dict({})
    ELSE LET last == files[Len(files)]
         IN IF ~last.is_none THEN get_section(last, section)
            ELSE load_mapping(SubSeq(files, 1, Len(files) - 1), section)

\* The character class [^-_a-z0-9].
NameClass(c) == c \notin ({"-", "_"} \cup LowerLetters \cup AsciiDigits)

\* re.sub(r'[^-_a-z0-9]', '', s): every character of the class is deleted.
RECURSIVE re_sub(_)
re_sub(s) ==
    IF s = <<>> THEN <<>>
    ELSE (IF NameClass(Head(s)) THEN <<>> ELSE <<Head(s)>>) \o re_sub(Tail(s))

normalize_name(name) == re_sub(lower(name))

Default == <<"d", "e", "f", "a", "u", "l", "t">>

\* Environment.from_env_file(workdir) of kraft.config.environment.
from_env_file(workdir) == [empty |-> FALSE, has |-> env_file.has, val |-> env_file.val]

\* Variant: KRAFT_PROJECT_NAME is not consulted.
get_project_name_basename_only(workdir, env) ==
    IF workdir # <<>> THEN normalize_name(workdir) ELSE Default

\* if not environment: environment = Environment.from_env_file(workdir);
\* project_name = None or environment.get('KRAFT_PROJECT_NAME'); workdir is
\* the basename of the absolute working directory.
get_project_name(workdir, env) ==
    LET e == IF env.empty THEN from_env_file(workdir) ELSE env
    IN IF e.has /\ e.val # <<>> THEN normalize_name(e.val)
       ELSE IF workdir # <<>> THEN normalize_name(workdir)
       ELSE Default

NoConfig ==
    [made |-> FALSE, specification |-> <<>>, name |-> Str(<<>>),
     unikraft |-> Dict({}), architectures |-> Dict({}), platforms |-> Dict({}),
     libraries |-> Dict({}), runner |-> Dict({})]

\* Variant: the last file taken as the main file.
main_file_version_last(files) == version(files[Len(files)]).value

\* main_file = config_details.config_files[0]; main_file.version
main_file_version(files) == version(files[1]).value

\* name = load_mapping(...); if name is None or len(name) == 0: get_project_name(...)
resolved_name(files, workdir, env) ==
    LET name == load_mapping(files, "name")
    IN IF PyLen(name) = 0 THEN Str(get_project_name(workdir, env)) ELSE name

\* The Config load_config builds from the processed files.
MakeConfig(files, workdir, env) ==
    [made |-> TRUE,
     specification |-> main_file_version(files),
     name |-> resolved_name(files, workdir, env),
     unikraft |-> load_mapping(files, "unikraft"),
     architectures |-> load_mapping(files, "architectures"),
     platforms |-> load_mapping(files, "platforms"),
     libraries |-> load_mapping(files, "libraries"),
     runner |-> load_mapping(files, "run")]

----------------------------------------------------------------------------
(* The inputs of load_config.                                              *)

EmptySections == [s \in Sections |-> SectionDefault(s)]

NoneFile ==
    [is_none |-> TRUE, has_specification |-> FALSE, specification |-> <<>>,
     sections |-> EmptySections, invalid |-> "none"]

File(has_spec, spec, sections, invalid) ==
    [is_none |-> FALSE, has_specification |-> has_spec, specification |-> spec,
     sections |-> sections, invalid |-> invalid]

App == <<"a", "p", "p">>
Two == <<"2">>
TwoZero == <<"2", ".", "0">>
Abc == <<"a", "b", "c">>
TwoX == <<"2", ".", "x">>
MyApp == <<"M", "y", " ", "A", "p", "p", "!", "!">>

SectionValues(section) ==
    IF section = "name" THEN {Str(<<>>), Str(App)}
    ELSE IF section = "libraries" THEN {Dict({}), Dict({"k1"}), Dict({"k2"})}
    ELSE {Dict({}), Dict({"k1"})}

Populated(sections) == {s \in Sections : PyLen(sections[s]) # 0}

\* Documents with at most MaxPopulated non-empty sections.
SectionChoices ==
    {f \in [Sections -> UNION {SectionValues(s) : s \in Sections}] :
        /\ \A s \in Sections : f[s] \in SectionValues(s)
        /\ Cardinality(Populated(f)) <= MaxPopulated}

FilesUpTo(F, n) == UNION {[1..k -> F] : k \in 1..n}

\* Files that differ in their sections.
MergeFiles == {NoneFile} \cup {File(FALSE, <<>>, f, "none") : f \in SectionChoices}

\* Files that differ in their specification, validity and libraries.
VersionFiles ==
    {NoneFile} \cup
    {File(hs, sp, [EmptySections EXCEPT !["libraries"] = l], inv) :
        hs \in {TRUE}, sp \in {Two, TwoZero, TwoX},
        l \in {Dict({}), Dict({"k1"})},
        inv \in {"none", "unikraft", "schema", "interpolation"}}
    \cup
    {File(FALSE, <<>>, [EmptySections EXCEPT !["libraries"] = l], inv) :
        l \in {Dict({}), Dict({"k1"})},
        inv \in {"none", "unikraft", "schema", "interpolation"}}

SpecChars == {"2", ".", "x", "\n", "U+0663"}
SpecStrings == StringsUpTo(SpecChars, MaxSpecLen) \cup {Abc}

\* Files that differ in their name only.
NameFiles ==
    {NoneFile} \cup
    {File(FALSE, <<>>, [EmptySections EXCEPT !["name"] = n], "none") :
        n \in SectionValues("name")}

NameChars == {"A", "!", "_"}
Names == StringsUpTo(NameChars, MaxNameLen) \cup {MyApp}
\* An environment that is not empty and has no KRAFT_PROJECT_NAME.
NoEnv == [empty |-> FALSE, has |-> FALSE, val |-> <<>>]
EmptyEnv == [empty |-> TRUE, has |-> FALSE, val |-> <<>>]
NoEntry == [has |-> FALSE, val |-> <<>>]
Entries == {NoEntry} \cup {[has |-> TRUE, val |-> n] : n \in Names}
Environments ==
    {NoEnv, EmptyEnv} \cup {[empty |-> FALSE, has |-> TRUE, val |-> n] : n \in Names}

InitMerge ==
    /\ config_files \in FilesUpTo(MergeFiles, MaxFiles)
    /\ working_dir = App
    /\ environment = NoEnv
    /\ env_file = NoEntry

InitVersion ==
    /\ config_files \in FilesUpTo(VersionFiles, MaxFiles)
    /\ working_dir = App
    /\ environment = NoEnv
    /\ env_file = NoEntry

InitSpecification ==
    /\ config_files \in
         {<<File(TRUE, sp, EmptySections, inv)>> :
             sp \in SpecStrings, inv \in {"none", "unikraft", "schema"}}
    /\ working_dir = App
    /\ environment = NoEnv
    /\ env_file = NoEntry

InitName ==
    /\ config_files \in FilesUpTo(NameFiles, MaxFiles)
    /\ working_dir \in Names
    /\ environment \in Environments
    /\ env_file \in (IF environment.empty THEN Entries ELSE {NoEntry})

IdleConfig ==
    /\ config_files = <<>>
    /\ working_dir = <<>>
    /\ environment = NoEnv
    /\ env_file = NoEntry
    /\ processed_files = <<>>
    /\ pc = "idle"
    /\ raised = NoError
    /\ config = NoConfig

IdleDiscovery ==
    /\ fs = <<>>
    /\ base_dir = 0
    /\ path = 0
    /\ visited = <<>>
    /\ candidates = <<>>
    /\ dpc = "idle"
    /\ draised = NoError
    /\ found = <<>>

IdleProbe ==
    /\ source = <<>>
    /\ self_source = <<>>
    /\ remote = [first |-> FALSE, second |-> FALSE]
    /\ listing = <<>>
    /\ lines = <<>>
    /\ versions = <<>>
    /\ ppc = "idle"
    /\ praised = NoError

IdleIsType ==
    /\ is_type_source = <<>>
    /\ work_trees = {}
    /\ reachable = {}
    /\ tried = <<>>
    /\ tpc = "idle"
    /\ treturn = FALSE
    /\ traised = NoError

IdleLoadYaml ==
    /\ filename = ""
    /\ outcomes = <<>>
    /\ encoding = ""
    /\ binary = FALSE
    /\ attempts = <<>>
    /\ ypc = "idle"
    /\ yreturn = ""
    /\ yraised = NoError

IdleExecutor ==
    /\ self_kernel = ""
    /\ self_platform = ""
    /\ self_cmd = <<>>
    /\ calls = <<>>
    /\ cmd_before = <<>>
    /\ run_cmd = <<>>
    /\ eraised = NoError

Init ==
    /\ InitMerge \/ InitVersion \/ InitSpecification \/ InitName
    /\ processed_files = <<>>
    /\ pc = "process"
    /\ raised = NoError
    /\ config = NoConfig
    /\ IdleDiscovery
    /\ IdleProbe
    /\ IdleIsType
    /\ IdleLoadYaml
    /\ IdleExecutor

----------------------------------------------------------------------------
(* load_config, one step of the comprehension at a time.                   *)

\* One iteration of [process_config_file(f, env) for f in config_files].
ProcessConfigFile ==
    /\ pc = "process"
    /\ Len(processed_files) < Len(config_files)
    /\ LET file == config_files[Len(processed_files) + 1]
           exc == IF file.is_none THEN NoError ELSE process_config_file_raise(file)
       IN IF exc # NoError
          THEN /\ pc' = "raised"
               /\ raised' = exc
               /\ UNCHANGED processed_files
          ELSE /\ processed_files' =
                     Append(processed_files, process_config_file(file, environment))
               /\ pc' = IF Len(processed_files) + 1 = Len(config_files)
                        THEN "merge" ELSE "process"
               /\ UNCHANGED raised
    /\ UNCHANGED <<config_files, working_dir, environment, env_file, config>>
    /\ UNCHANGED <<dvars, pvars, tvars, yvars, evars>>

\* The rest of load_config: the main file's check, the merge of every
\* section, the name's default, and the Config.
LoadConfig ==
    /\ pc = "merge"
    /\ IF processed_files[1].is_none
       THEN /\ pc' = "raised"
            /\ raised' = CannotReadKraftfile
            /\ UNCHANGED config
       ELSE /\ pc' = "done"
            /\ config' = MakeConfig(processed_files, working_dir, environment)
            /\ UNCHANGED raised
    /\ UNCHANGED <<config_files, working_dir, environment, env_file, processed_files>>
    /\ UNCHANGED <<dvars, pvars, tvars, yvars, evars>>

Next == ProcessConfigFile \/ LoadConfig

Spec == Init /\ [][Next]_vars

----------------------------------------------------------------------------
(* Properties of load_config.                                              *)

Terminal == pc \in {"done", "raised"}

\* The field of a Config that holds a manifest section.
ConfigField(c, section) == IF section = "run" THEN c.runner ELSE c[section]

\* The indices of the files that define a section non-emptily.
Defining(files, section) ==
    {i \in 1..Len(files) :
        ~files[i].is_none /\ PyLen(files[i].sections[section]) # 0}

Last(S) == CHOOSE i \in S : \A j \in S : j <= i

\* C1: in every Config load_config returns, each section that some file
\* defines non-emptily holds the value of the last file that defines it
\* non-emptily; a later file with the section absent or empty does not
\* replace it.
C1_LastNonEmptyFileWins ==
    pc = "done" =>
        \A s \in Sections :
            Defining(processed_files, s) # {} =>
                ConfigField(config, s) =
                    processed_files[Last(Defining(processed_files, s))].sections[s]

\* C2: for two files A then B that both define a non-empty libraries
\* mapping, Config.libraries is exactly B's processed libraries: no key
\* that only A's libraries has is in it.
C2_LibrariesReplaced ==
    (/\ pc = "done"
     /\ Len(config_files) = 2
     /\ Defining(config_files, "libraries") = {1, 2}) =>
        /\ config.libraries = processed_files[2].sections["libraries"]
        /\ \A k \in config_files[1].sections["libraries"].keys
                    \ config_files[2].sections["libraries"].keys :
               k \notin config.libraries.keys

C2_Witness ==
    /\ pc = "done"
    /\ Len(config_files) = 2
    /\ ~config_files[1].is_none /\ ~config_files[2].is_none
    /\ config_files[1].sections["libraries"] = Dict({"k1"})
    /\ config_files[2].sections["libraries"] = Dict({"k2"})
    /\ config.libraries = Dict({"k2"})

\* C3: every Config load_config returns has a non-empty name.
C3_NameNonEmpty == pc = "done" => PyLen(config.name) # 0

\* The name of the claims: lower-cased, and only the characters of
\* [a-z0-9_-] kept.
KeptInName(c) == c \in LowerLetters \cup AsciiDigits \cup {"_", "-"}
Normalized(s) == SelectSeq([i \in 1..Len(s) |-> LowerChar(s[i])], KeptInName)

NoManifestName == Defining(config_files, "name") = {}

\* C4 as stated: with no manifest name, Config.name is the normalized
\* KRAFT_PROJECT_NAME when the environment has it and the normalized
\* basename otherwise.
C4_NameIsNormalizedBasename ==
    (pc = "done" /\ NoManifestName) =>
        config.name = Str(IF environment.has THEN Normalized(environment.val)
                          ELSE Normalized(working_dir))

\* The environment get_project_name reads: the one given, or, when that
\* one is empty, the one it loads for the working directory.
InEffect == IF environment.empty THEN env_file ELSE environment

\* C4, amended: with no manifest name, Config.name is the normalized
\* KRAFT_PROJECT_NAME of the environment in effect when that is set and
\* not empty; otherwise the normalized basename when the basename is not
\* empty ("My App!!" gives "myapp"), and "default" when it is empty.
C4_NameFromEnvironmentOrBasename ==
    /\ (pc = "done" /\ NoManifestName) =>
         config.name =
            Str(IF InEffect.has /\ Len(InEffect.val) > 0
                    THEN Normalized(InEffect.val)
                ELSE IF Len(working_dir) > 0 THEN Normalized(working_dir)
                ELSE <<"d", "e", "f", "a", "u", "l", "t">>)
    /\ (pc = "done" /\ NoManifestName /\ ~InEffect.has /\ working_dir = MyApp) =>
         config.name = Str(<<"m", "y", "a", "p", "p">>)

C4_Witness ==
    /\ pc = "done"
    /\ NoManifestName
    /\ ~environment.empty /\ ~environment.has
    /\ working_dir = MyApp
    /\ config.name = Str(<<"m", "y", "a", "p", "p">>)

\* The strings of ^[0-9]+(\.[0-9]+)?$ read as a language: digits, and
\* optionally a dot and digits.
Numeral(s, digits) == Len(s) > 0 /\ \A i \in 1..Len(s) : s[i] \in digits

ClaimedPattern(s) ==
    \/ Numeral(s, AsciiDigits)
    \/ \E d \in 1..Len(s) :
          /\ s[d] = "."
          /\ Numeral(SubSeq(s, 1, d - 1), AsciiDigits)
          /\ Numeral(SubSeq(s, d + 1, Len(s)), AsciiDigits)

\* The strings the code accepts: ASCII digits, optionally a dot and
\* decimal digits of any script, optionally one trailing newline.
WithoutNewline(s) ==
    IF Len(s) > 0 /\ s[Len(s)] = "\n" THEN SubSeq(s, 1, Len(s) - 1) ELSE s

AcceptedPattern(s) ==
    LET t == WithoutNewline(s)
    IN \/ Numeral(t, AsciiDigits)
       \/ \E d \in 1..Len(t) :
             /\ t[d] = "."
             /\ Numeral(SubSeq(t, 1, d - 1), AsciiDigits)
             /\ Numeral(SubSeq(t, d + 1, Len(t)), UnicodeDigits)

\* The non-empty files whose specification field is present.
Declaring(files) ==
    {i \in 1..Len(files) : ~files[i].is_none /\ files[i].has_specification}

First(S) == CHOOSE i \in S : \A j \in S : i <= j

C6_SpecificationOfFirstFile ==
    pc = "done" =>
        config.specification =
            (IF config_files[1].has_specification
             THEN config_files[1].specification ELSE KRAFT_SPEC_LATEST)

C6_Witness ==
    /\ pc = "done"
    /\ Len(config_files) = 2
    /\ config_files[1].has_specification /\ config_files[1].specification = Two
    /\ config_files[2].has_specification /\ config_files[2].specification = TwoZero
    /\ config_files[1].sections["libraries"] = Dict({})
    /\ config_files[2].sections["libraries"] = Dict({"k1"})
    /\ config.libraries = Dict({"k1"})
    /\ config.specification = Two

----------------------------------------------------------------------------
(* Config discovery: find_candidates_in_parent_dirs and                    *)
(* get_default_config_files.  A directory is its depth below the root;     *)
(* the parent of depth d is depth d - 1, and os.path.join(path, '..') of   *)
(* the root is the root.                                                   *)

\* SUPPORTED_FILENAMES of kraft.const, in priority order.
SUPPORTED_FILENAMES == <<"kraft.yaml", "kraft.yml">>

KraftFileNotFound == "KraftFileNotFound"

\* Variant: the search stops one directory below the root.
at_root_one_early(p) == p <= 1

\* os.path.abspath(parent_dir) == os.path.abspath(path)
at_root(p) == p = 0

\* [filename for filename in filenames if os.path.exists(os.path.join(path, filename))]
existing(filenames, p) == SelectSeq(filenames, LAMBDA f : f \in fs[p])

\* Variant: the last candidate wins.
winner_last(cands) == cands[Len(cands)]

\* winner = candidates[0]
winner(cands) == cands[1]

InitDiscovery ==
    /\ base_dir \in 0..MaxDepth
    /\ fs \in [0..base_dir ->
                 SUBSET {SUPPORTED_FILENAMES[i] : i \in 1..Len(SUPPORTED_FILENAMES)}]
    /\ path = base_dir
    /\ visited = <<>>
    /\ candidates = <<>>
    /\ dpc = "find"
    /\ draised = NoError
    /\ found = <<>>
    /\ IdleConfig
    /\ IdleProbe
    /\ IdleIsType
    /\ IdleLoadYaml
    /\ IdleExecutor

\* One call of find_candidates_in_parent_dirs: it looks at path, and
\* either calls itself on the parent or returns (candidates, path).
FindCandidatesInParentDirs ==
    /\ dpc = "find"
    /\ visited' = Append(visited, path)
    /\ LET here == existing(SUPPORTED_FILENAMES, path)
       IN IF here = <<>> /\ ~at_root(path)
          THEN /\ path' = path - 1
               /\ UNCHANGED <<candidates, dpc>>
          ELSE /\ candidates' = here
               /\ dpc' = "found"
               /\ UNCHANGED path
    /\ UNCHANGED <<fs, base_dir, draised, found>>
    /\ UNCHANGED <<cvars, pvars, tvars, yvars, evars>>

\* get_default_config_files, from the return of the search on.
GetDefaultConfigFiles ==
    /\ dpc = "found"
    /\ IF candidates = <<>>
       THEN /\ dpc' = "raised"
            /\ draised' = KraftFileNotFound
            /\ UNCHANGED found
       ELSE /\ dpc' = "done"
            /\ found' = <<[dir |-> path, filename |-> winner(candidates)]>>
            /\ UNCHANGED draised
    /\ UNCHANGED <<fs, base_dir, path, visited, candidates>>
    /\ UNCHANGED <<cvars, pvars, tvars, yvars, evars>>

NextDiscovery == FindCandidatesInParentDirs \/ GetDefaultConfigFiles

SpecDiscovery == InitDiscovery /\ [][NextDiscovery]_vars

----------------------------------------------------------------------------
(* Properties of discovery.                                                *)

DiscoveryOver == dpc \in {"done", "raised"}

NoManifestOnChain == \A d \in 0..base_dir : fs[d] = {}

\* The chain from the starting directory up to the root.
RECURSIVE ChainDown(_)
ChainDown(d) == IF d = 0 THEN <<0>> ELSE <<d>> \o ChainDown(d - 1)

\* C7: when no directory from the start to the root holds an accepted
\* filename, discovery ends (it can always take a step until it is over,
\* and looks at no directory twice), having looked at each directory of
\* the chain once, with KraftFileNotFound and no path.
C7_NotFoundRaises ==
    NoManifestOnChain =>
        /\ DiscoveryOver \/ ENABLED NextDiscovery
        /\ \A i, j \in 1..Len(visited) : visited[i] = visited[j] => i = j
        /\ DiscoveryOver =>
              /\ dpc = "raised"
              /\ draised = KraftFileNotFound
              /\ found = <<>>
              /\ visited = ChainDown(base_dir)

C7_Witness ==
    /\ NoManifestOnChain
    /\ base_dir = MaxDepth
    /\ dpc = "raised"
    /\ draised = KraftFileNotFound
    /\ Len(visited) = MaxDepth + 1

\* The position of a filename in the priority list.
Priority(f) == CHOOSE i \in 1..Len(SUPPORTED_FILENAMES) : SUPPORTED_FILENAMES[i] = f

\* C8: when some directory of the chain holds an accepted filename,
\* discovery returns exactly one path; it is in the nearest such directory
\* and has the name that comes first in the priority list among the names
\* that directory holds.
C8_NearestDirectoryFirstName ==
    (DiscoveryOver /\ ~NoManifestOnChain) =>
        /\ dpc = "done"
        /\ Len(found) = 1
        /\ fs[found[1].dir] # {}
        /\ \A d \in 0..base_dir : fs[d] # {} => d <= found[1].dir
        /\ found[1].filename \in fs[found[1].dir]
        /\ \A f \in fs[found[1].dir] : Priority(found[1].filename) <= Priority(f)

C8_Witness ==
    /\ dpc = "done"
    /\ base_dir = 2
    /\ fs[2] = {}
    /\ fs[1] = {"kraft.yaml", "kraft.yml"}
    /\ fs[0] = {"kraft.yaml"}
    /\ found = <<[dir |-> 1, filename |-> "kraft.yaml"]>>

----------------------------------------------------------------------------
(* git_probe_remote_versions and GitLibraryProvider.probe_remote_versions. *)
(* A source is a sequence of pieces of text of which "file://" and the     *)
(* framework origin are each one; a line of the listing is the list of its *)
(* tab-separated fields; a refPath is [ns, name] for refs/<ns>/<name>.     *)

\* UNIKRAFT_ORIGIN of kraft.const.
UNIKRAFT_ORIGIN == "https://github.com/unikraft"

GitCommandError == "GitCommandError"
IndexError == "IndexError"

Main == <<"m", "a", "i", "n">>
V123 == <<"v", "1", ".", "2", ".", "3">>
N123 == <<"1", ".", "2", ".", "3">>
ReleasePrefix == <<"R", "E", "L", "E", "A", "S", "E", "-">>
Release123 == ReleasePrefix \o N123

IsPrefix(pre, s) == Len(pre) <= Len(s) /\ SubSeq(s, 1, Len(pre)) = pre

DottedNumber(s) ==
    /\ Len(s) > 0
    /\ s[1] \in AsciiDigits
    /\ \A i \in 1..Len(s) : s[i] \in AsciiDigits \cup {"."}

\* GIT_BRANCH_PATTERN.search(refPath): refs/heads/(...).
GIT_BRANCH_PATTERN(ref) == [matched |-> ref.ns = "heads", group |-> ref.name]

\* GIT_TAG_PATTERN.search(refPath): refs/tags/(...).
GIT_TAG_PATTERN(ref) == [matched |-> ref.ns = "tags", group |-> ref.name]

\* GIT_UNIKRAFT_TAG_PATTERN.search(refPath): refs/tags/RELEASE-(...).
GIT_UNIKRAFT_TAG_PATTERN(ref) ==
    IF ref.ns = "tags" /\ IsPrefix(ReleasePrefix, ref.name)
       /\ DottedNumber(SubSeq(ref.name, Len(ReleasePrefix) + 1, Len(ref.name)))
    THEN [matched |-> TRUE,
          group |-> SubSeq(ref.name, Len(ReleasePrefix) + 1, Len(ref.name))]
    ELSE [matched |-> FALSE, group |-> <<>>]

\* VSEMVER_PATTERN.search(ver): a v and a dotted number.
VSEMVER_PATTERN(ver) == Len(ver) > 1 /\ ver[1] = "v" /\ DottedNumber(Tail(ver))

\* source.startswith(prefix), for a prefix that is one piece.
startswith(src, prefix) == Len(src) > 0 /\ src[1] = prefix

\* if source.startswith("file://"): source = source[7:]
strip_file_scheme(src) == IF startswith(src, "file://") THEN Tail(src) ELSE src

\* if VSEMVER_PATTERN.search(ver): ver = ver[1:]
strip_v(ver) == IF VSEMVER_PATTERN(ver) THEN Tail(ver) ELSE ver

\* Variant: the generic tag pattern used for every source.
classify_generic_tags(src, ref) ==
    LET branch == GIT_BRANCH_PATTERN(ref)
        tag == GIT_TAG_PATTERN(ref)
    IN IF branch.matched THEN [matched |-> TRUE, ver |-> strip_v(branch.group)]
       ELSE IF tag.matched THEN [matched |-> TRUE, ver |-> strip_v(tag.group)]
       ELSE [matched |-> FALSE, ver |-> <<>>]

\* The body of the loop from "Check if branch" on: the version a refPath
\* stands for, if any.  src is the source after strip_file_scheme.
classify(src, ref) ==
    LET branch == GIT_BRANCH_PATTERN(ref)
        tag == IF startswith(src, UNIKRAFT_ORIGIN)
               THEN GIT_UNIKRAFT_TAG_PATTERN(ref) ELSE GIT_TAG_PATTERN(ref)
    IN IF branch.matched THEN [matched |-> TRUE, ver |-> strip_v(branch.group)]
       ELSE IF tag.matched THEN [matched |-> TRUE, ver |-> strip_v(tag.group)]
       ELSE [matched |-> FALSE, ver |-> <<>>]

\* Variant: a version already in the dictionary keeps its content id.
assign_keep_first(vs, ver, id) ==
    [v \in DOMAIN vs \cup {ver} |-> IF v \in DOMAIN vs THEN vs[v] ELSE id]

\* versions[ver] = contentId
assign(vs, ver, id) ==
    [v \in DOMAIN vs \cup {ver} |-> IF v = ver THEN id ELSE vs[v]]

\* g.ls_remote(source).split('\n'): git ends every line with a newline, so
\* the last piece is the empty string.
BlankLine == <<"">>
split_lines(text) == text \o <<BlankLine>>

Ids == {"abc123", "xyz789"}
RefNames == {Main, V123, N123, Release123}
Refs ==
    {[ns |-> ns, name |-> n] : ns \in {"heads", "tags"}, n \in RefNames}
    \cup {[ns |-> "pull", name |-> N123]}
Lines ==
    {BlankLine} \cup {<<id>> : id \in Ids} \cup {<<id, ref>> : id \in Ids, ref \in Refs}
Sources ==
    {<<UNIKRAFT_ORIGIN, "/unikraft.git">>,
     <<"file://", UNIKRAFT_ORIGIN, "/unikraft.git">>,
     <<"https://example.org", "/lib.git">>,
     <<"file://", "/srv/lib.git">>}

\* None as a source.
NoSource == <<"None">>

InitProbe ==
    /\ source \in Sources \cup {NoSource}
    /\ self_source \in (IF source = NoSource THEN Sources \cup {NoSource} ELSE {NoSource})
    /\ remote \in [first : BOOLEAN, second : BOOLEAN]
    /\ listing \in UNION {[1..k -> Lines] : k \in 0..MaxLines}
    /\ lines = <<>>
    /\ versions = <<>>
    /\ ppc = "call"
    /\ praised = NoError
    /\ IdleConfig
    /\ IdleDiscovery
    /\ IdleIsType
    /\ IdleLoadYaml
    /\ IdleExecutor

\* GitLibraryProvider.probe_remote_versions, and git_probe_remote_versions
\* up to its return for a source that is None.
ProbeRemoteVersions ==
    /\ ppc = "call"
    /\ source' = IF source = NoSource THEN self_source ELSE source
    /\ ppc' = IF source' = NoSource THEN "returned" ELSE "connect"
    /\ UNCHANGED <<self_source, remote, listing, lines, versions, praised>>
    /\ UNCHANGED <<cvars, dvars, tvars, yvars, evars>>

\* try: g.ls_remote(source) except GitCommandError: return versions
ProbeConnect ==
    /\ ppc = "connect"
    /\ ppc' = IF remote.first THEN "list" ELSE "returned"
    /\ UNCHANGED <<source, self_source, remote, listing, lines, versions, praised>>
    /\ UNCHANGED <<cvars, dvars, tvars, yvars, evars>>

\* for refs in g.ls_remote(source).split('\n'): the second ls_remote, which
\* no try encloses.
ProbeList ==
    /\ ppc = "list"
    /\ IF remote.second
       THEN /\ lines' = split_lines(listing)
            /\ ppc' = "loop"
            /\ UNCHANGED praised
       ELSE /\ ppc' = "raised"
            /\ praised' = GitCommandError
            /\ UNCHANGED lines
    /\ UNCHANGED <<source, self_source, remote, listing, versions>>
    /\ UNCHANGED <<cvars, dvars, tvars, yvars, evars>>

\* One iteration of the loop over the lines.
ProbeLine ==
    /\ ppc = "loop"
    /\ lines # <<>>
    /\ LET hash_ref_list == Head(lines)
       IN IF Len(hash_ref_list) = 0 \/ hash_ref_list[1] = ""
          THEN /\ lines' = Tail(lines)
               /\ UNCHANGED <<versions, ppc, praised>>
          ELSE IF Len(hash_ref_list) < 2
          THEN /\ ppc' = "raised"
               /\ praised' = IndexError
               /\ UNCHANGED <<lines, versions>>
          ELSE LET c == classify(strip_file_scheme(source), hash_ref_list[2])
               IN /\ versions' = IF c.matched
                                 THEN assign(versions, c.ver, hash_ref_list[1])
                                 ELSE versions
                  /\ lines' = Tail(lines)
                  /\ UNCHANGED <<ppc, praised>>
    /\ UNCHANGED <<source, self_source, remote, listing>>
    /\ UNCHANGED <<cvars, dvars, tvars, yvars, evars>>

\* return versions
ProbeReturn ==
    /\ ppc = "loop"
    /\ lines = <<>>
    /\ ppc' = "returned"
    /\ UNCHANGED <<source, self_source, remote, listing, lines, versions, praised>>
    /\ UNCHANGED <<cvars, dvars, tvars, yvars, evars>>

NextProbe == ProbeRemoteVersions \/ ProbeConnect \/ ProbeList \/ ProbeLine \/ ProbeReturn

SpecProbe == InitProbe /\ [][NextProbe]_vars

----------------------------------------------------------------------------
(* Properties of the probe.                                                *)

\* C9: whichever ls-remote invocation fails, the probe returns a mapping
\* and raises nothing to its caller.
C9_TransportFailureNotRaised == ~(ppc = "raised" /\ praised = GitCommandError)

\* The version of a refPath as the specification gives it.
IsFramework(src) ==
    \/ (Len(src) > 0 /\ src[1] = UNIKRAFT_ORIGIN)
    \/ (Len(src) > 1 /\ src[1] = "file://" /\ src[2] = UNIKRAFT_ORIGIN)

Captured(src, ref) ==
    IF GIT_BRANCH_PATTERN(ref).matched THEN GIT_BRANCH_PATTERN(ref)
    ELSE IF IsFramework(src) THEN GIT_UNIKRAFT_TAG_PATTERN(ref)
    ELSE GIT_TAG_PATTERN(ref)

VersionOf(src, ref) ==
    LET g == Captured(src, ref).group
    IN IF VSEMVER_PATTERN(g) THEN SubSeq(g, 2, Len(g)) ELSE g

WellFormed(text) == \A i \in 1..Len(text) : Len(text[i]) = 2

\* C10: for a well-formed listing the returned mapping has exactly the
\* versions of the lines whose refPath is a branch or a recognized tag,
\* each with the content id of a line of that version; refs/heads/main
\* abc123 and refs/tags/v1.2.3 xyz789 on a non-framework source give
\* {main: abc123, 1.2.3: xyz789}.
C10_Classification ==
    (ppc = "returned" /\ source # NoSource /\ remote.first /\ WellFormed(listing)) =>
        /\ DOMAIN versions =
              {VersionOf(source, listing[i][2]) :
                  i \in {j \in 1..Len(listing) : Captured(source, listing[j][2]).matched}}
        /\ \A v \in DOMAIN versions :
              \E i \in 1..Len(listing) :
                  /\ Captured(source, listing[i][2]).matched
                  /\ VersionOf(source, listing[i][2]) = v
                  /\ versions[v] = listing[i][1]
        /\ (/\ ~IsFramework(source)
            /\ listing = << <<"abc123", [ns |-> "heads", name |-> Main]>>,
                            <<"xyz789", [ns |-> "tags", name |-> V123]>> >>)
           => versions = (Main :> "abc123") @@ (N123 :> "xyz789")

C10_Witness ==
    /\ ppc = "returned"
    /\ source = <<"https://example.org", "/lib.git">>
    /\ listing = << <<"abc123", [ns |-> "heads", name |-> Main]>>,
                    <<"xyz789", [ns |-> "tags", name |-> V123]>> >>
    /\ versions = (Main :> "abc123") @@ (N123 :> "xyz789")

\* The lines of the listing the loop has already taken.
Taken ==
    IF ppc \in {"loop", "returned", "raised"} THEN Len(listing) + 1 - Len(lines) ELSE 0

\* The taken lines that are references of a given version.
TakenOf(v) ==
    {i \in 1..Len(listing) :
        /\ i <= Taken
        /\ Len(listing[i]) = 2
        /\ listing[i][1] # ""
        /\ Captured(source, listing[i][2]).matched
        /\ VersionOf(source, listing[i][2]) = v}

Latest(S) == CHOOSE i \in S : \A j \in S : j <= i

\* C11: at every point of the loop, and in the mapping returned, each
\* version holds the content id of the last reference of that version
\* among the lines taken so far, in listing order; references of the same
\* version raise no error.
C11_LastReferenceWins ==
    /\ \A v \in DOMAIN versions :
          /\ TakenOf(v) # {}
          /\ versions[v] = listing[Latest(TakenOf(v))][1]
    /\ (\A i \in 1..Len(listing) : Len(listing[i]) = 2) => praised # IndexError

C11_Witness ==
    /\ ppc = "returned"
    /\ source = <<"https://example.org", "/lib.git">>
    /\ listing = << <<"abc123", [ns |-> "tags", name |-> V123]>>,
                    <<"xyz789", [ns |-> "tags", name |-> N123]>> >>
    /\ versions = (N123 :> "xyz789")

\* C12: a blank or malformed line, a non-empty line without a tab among
\* them, is skipped without raising.
C12_MalformedLineSkipped == praised # IndexError

----------------------------------------------------------------------------
(* GitLibraryProvider.is_type.  A directory is the sequence of its path    *)
(* segments; a source is a sequence of pieces as above.                    *)

Srv == <<"/srv">>
Lib == <<"/srv", "/lib">>
LibSrc == <<"/srv", "/lib", "/src">>
Tmp == <<"/tmp">>
Nowhere == <<"/nowhere">>
Example == <<"https://example.org", "/lib.git">>

\* The directories that exist.
Dirs == {Srv, Lib, LibSrc, Tmp}

NoSuchPathError == "NoSuchPathError"
InvalidGitRepositoryError == "InvalidGitRepositoryError"

\* GitRepo(path, search_parent_directories=True): the exception it raises
\* (NoError when the path or one of its parents holds a repository).
GitRepo(dir, roots) ==
    IF dir \notin Dirs THEN NoSuchPathError
    ELSE IF \E k \in 1..Len(dir) : SubSeq(dir, 1, k) \in roots THEN NoError
    ELSE InvalidGitRepositoryError

\* GitCmd().ls_remote(arg): the exception it raises.
ls_remote(arg, ok) == IF arg \in ok THEN NoError ELSE GitCommandError

\* Variant: the file:// prefix left on the path given to GitRepo.
is_type_local_unstripped(src, roots) == GitRepo(src, roots)

\* if source.startswith("file://"): source = source[7:]
\* GitRepo(source, search_parent_directories=True)
is_type_local(src, roots) == GitRepo(strip_file_scheme(src), roots)

\* except Exception: every exception of the two checks is an Exception.
except_Exception(exc) ==
    exc \in {NoSuchPathError, InvalidGitRepositoryError, GitCommandError}

IsTypeSources ==
    {NoSource, LibSrc, <<"file://">> \o LibSrc, Lib, Tmp, Nowhere,
     <<"file://">> \o Nowhere, Example}

InitIsType ==
    /\ is_type_source \in IsTypeSources
    /\ work_trees \in SUBSET {Srv, Lib, LibSrc}
    /\ reachable \in SUBSET {Example, Tmp, <<"file://">> \o LibSrc}
    /\ tried = <<>>
    /\ tpc = "call"
    /\ treturn = FALSE
    /\ traised = NoError
    /\ IdleConfig
    /\ IdleDiscovery
    /\ IdleProbe
    /\ IdleLoadYaml
    /\ IdleExecutor

\* if source is None: return False
IsType ==
    /\ tpc = "call"
    /\ tpc' = IF is_type_source = NoSource THEN "returned" ELSE "local"
    /\ UNCHANGED <<is_type_source, work_trees, reachable, tried, treturn, traised>>
    /\ UNCHANGED <<cvars, dvars, pvars, yvars, evars>>

\* The first try: the local check.
IsTypeLocal ==
    /\ tpc = "local"
    /\ LET exc == is_type_local(is_type_source, work_trees)
       IN /\ tried' = Append(tried, [check |-> "local",
                                     arg |-> strip_file_scheme(is_type_source),
                                     exc |-> exc])
          /\ IF exc = NoError
             THEN tpc' = "returned" /\ treturn' = TRUE /\ UNCHANGED traised
             ELSE IF except_Exception(exc)
             THEN tpc' = "remote" /\ UNCHANGED <<treturn, traised>>
             ELSE tpc' = "raised" /\ traised' = exc /\ UNCHANGED treturn
    /\ UNCHANGED <<is_type_source, work_trees, reachable>>
    /\ UNCHANGED <<cvars, dvars, pvars, yvars, evars>>

\* The second try: the remote listing, of the source as the first try
\* left it; then return False.
IsTypeRemote ==
    /\ tpc = "remote"
    /\ LET arg == strip_file_scheme(is_type_source)
           exc == ls_remote(arg, reachable)
       IN /\ tried' = Append(tried, [check |-> "remote", arg |-> arg, exc |-> exc])
          /\ IF exc = NoError
             THEN tpc' = "returned" /\ treturn' = TRUE /\ UNCHANGED traised
             ELSE IF except_Exception(exc)
             THEN tpc' = "returned" /\ treturn' = FALSE /\ UNCHANGED traised
             ELSE tpc' = "raised" /\ traised' = exc /\ UNCHANGED treturn
    /\ UNCHANGED <<is_type_source, work_trees, reachable>>
    /\ UNCHANGED <<cvars, dvars, pvars, yvars, evars>>

NextIsType == IsType \/ IsTypeLocal \/ IsTypeRemote

SpecIsType == InitIsType /\ [][NextIsType]_vars

----------------------------------------------------------------------------
(* Properties of is_type.                                                  *)

\* The source without a leading file://.
Stripped == IF is_type_source[1] = "file://" THEN Tail(is_type_source) ELSE is_type_source

\* The stripped source is an existing directory in a git working tree:
\* it or one of its parent directories holds a repository.
InWorkTree ==
    /\ Stripped \in Dirs
    /\ \E d \in work_trees : Len(d) <= Len(Stripped) /\ SubSeq(Stripped, 1, Len(d)) = d

\* C13: is_type never raises; it returns False for a None source without
\* checking anything; otherwise it checks first whether the source, without
\* its file:// prefix, is inside a local working tree (parent directories
\* included) and returns True if so without a remote listing; only when
\* that check fails does it try the remote listing, and it returns True
\* when the listing succeeds and False when both fail.
C13_IsTypeNeverRaises ==
    /\ tpc # "raised"
    /\ traised = NoError
    /\ (tpc = "returned" /\ is_type_source = NoSource) =>
          (treturn = FALSE /\ tried = <<>>)
    /\ (tpc = "returned" /\ is_type_source # NoSource) =>
          /\ tried[1].check = "local" /\ tried[1].arg = Stripped
          /\ InWorkTree => (treturn = TRUE /\ Len(tried) = 1)
          /\ ~InWorkTree =>
                /\ Len(tried) = 2
                /\ tried[2].check = "remote"
                /\ treturn = (Stripped \in reachable)

\* A file:// source in a subdirectory of a working tree, no remote reachable.
C13_Witness ==
    /\ tpc = "returned"
    /\ is_type_source = <<"file://">> \o LibSrc
    /\ work_trees = {Lib}
    /\ reachable = {}
    /\ tried = <<[check |-> "local", arg |-> LibSrc, exc |-> NoError]>>
    /\ treturn = TRUE

----------------------------------------------------------------------------
(* KraftFile.from_filename and load_yaml.  What an attempt to open and     *)
(* parse the file ends with is given by outcomes, one entry per attempt.   *)

MaxAttempts == 3

IOError == "IOError"
YAMLError == "yaml.YAMLError"
UnicodeDecodeError == "UnicodeDecodeError"
ValueError == "ValueError"
\* KraftError(u"{}: {}".format(error_name, e))
KraftError == "KraftError: error_name: e"

\* encoding=None, and the fallback encoding.
NoEncoding == "None"
Utf8Sig == "utf-8-sig"

\* The documents yaml.safe_load returns: None for an empty file.
Documents == {"None", "{name: app}"}

\* An attempt returns a document or raises: one of the three the except
\* clause names, or another (ValueError for a filename with a null byte).
Outcomes ==
    {[exc |-> NoError, doc |-> d] : d \in Documents}
    \cup {[exc |-> e, doc |-> ""] : e \in {IOError, YAMLError, UnicodeDecodeError, ValueError}}

\* except (IOError, yaml.YAMLError, UnicodeDecodeError) as e
except_load(exc) == exc \in {IOError, YAMLError, UnicodeDecodeError}

\* Variant: the retry made whatever the encoding of the failed attempt.
retry_always(enc) == TRUE

\* if encoding is None: return load_yaml(filename, encoding='utf-8-sig', binary=False)
retry(enc) == enc = NoEncoding

InitLoadYaml ==
    /\ filename \in {"kraft.yaml", "kraft.yml"}
    /\ outcomes \in [1..MaxAttempts -> Outcomes]
    /\ encoding = NoEncoding
    /\ binary = TRUE
    /\ attempts = <<>>
    /\ ypc = "from_filename"
    /\ yreturn = ""
    /\ yraised = NoError
    /\ IdleConfig
    /\ IdleDiscovery
    /\ IdleProbe
    /\ IdleIsType
    /\ IdleExecutor

\* KraftFile.from_filename: load_yaml(filename), the defaults for encoding
\* and binary.
FromFilename ==
    /\ ypc = "from_filename"
    /\ encoding' = NoEncoding
    /\ binary' = TRUE
    /\ ypc' = "call"
    /\ UNCHANGED <<filename, outcomes, attempts, yreturn, yraised>>
    /\ UNCHANGED <<cvars, dvars, pvars, tvars, evars>>

\* One call of load_yaml: the attempt, and on an exception the except
\* clause names either the call of itself with the fallback encoding or
\* the KraftError.
LoadYaml ==
    /\ ypc = "call"
    /\ Len(attempts) < MaxAttempts
    /\ LET o == outcomes[Len(attempts) + 1]
       IN /\ attempts' = Append(attempts, [encoding |-> encoding, binary |-> binary])
          /\ IF o.exc = NoError
             THEN /\ ypc' = "returned"
                  /\ yreturn' = o.doc
                  /\ UNCHANGED <<encoding, binary, yraised>>
             ELSE IF ~except_load(o.exc)
             THEN /\ ypc' = "raised"
                  /\ yraised' = o.exc
                  /\ UNCHANGED <<encoding, binary, yreturn>>
             ELSE IF retry(encoding)
             THEN /\ encoding' = Utf8Sig
                  /\ binary' = FALSE
                  /\ UNCHANGED <<ypc, yreturn, yraised>>
             ELSE /\ ypc' = "raised"
                  /\ yraised' = KraftError
                  /\ UNCHANGED <<encoding, binary, yreturn>>
    /\ UNCHANGED <<filename, outcomes>>
    /\ UNCHANGED <<cvars, dvars, pvars, tvars, evars>>

NextLoadYaml == FromFilename \/ LoadYaml

SpecLoadYaml == InitLoadYaml /\ [][NextLoadYaml]_vars

----------------------------------------------------------------------------
(* Properties of load_yaml.                                                *)

LoadOver == ypc \in {"returned", "raised"}

\* The failures of an attempt the except clause names: I/O error, malformed
\* document, decoding error.
Failed(k) == outcomes[k].exc \in {IOError, YAMLError, UnicodeDecodeError}
Succeeded(k) == outcomes[k].exc = NoError

\* C14: loading one file makes at most two attempts; the first has the
\* default encoding; a second is made only after the first failed and it
\* forces utf-8-sig; when the first succeeds the load returns its document
\* with no retry; when the first fails exactly one retry is made, and the
\* load returns the retry's document or, when the retry fails too, raises
\* the unreadable-manifest KraftError without a third attempt.
C14_AtMostOneRetry ==
    /\ Len(attempts) <= 2
    /\ Len(attempts) >= 1 => attempts[1] = [encoding |-> NoEncoding, binary |-> TRUE]
    /\ Len(attempts) = 2 =>
          (Failed(1) /\ attempts[2] = [encoding |-> Utf8Sig, binary |-> FALSE])
    /\ (LoadOver /\ Succeeded(1)) =>
          (Len(attempts) = 1 /\ ypc = "returned" /\ yreturn = outcomes[1].doc)
    /\ (LoadOver /\ Failed(1)) => Len(attempts) = 2
    /\ (LoadOver /\ Failed(1) /\ Succeeded(2)) =>
          (ypc = "returned" /\ yreturn = outcomes[2].doc)
    /\ (LoadOver /\ Failed(1) /\ Failed(2)) =>
          (ypc = "raised" /\ yraised = KraftError)

\* A decoding error, then a malformed document: two attempts, then the error.
C14_Witness ==
    /\ ypc = "raised"
    /\ yraised = KraftError
    /\ outcomes[1].exc = UnicodeDecodeError
    /\ outcomes[2].exc = YAMLError
    /\ attempts = <<[encoding |-> NoEncoding, binary |-> TRUE],
                    [encoding |-> Utf8Sig, binary |-> FALSE]>>

----------------------------------------------------------------------------
(* Properties of load_config: failures and files without content.          *)

\* A file whose processing fails: a validator or the interpolation raises
\* for it, or its specification field is not accepted.
Faulty(file) ==
    /\ ~file.is_none
    /\ \/ file.invalid # "none"
       \/ file.has_specification /\ ~AcceptedPattern(file.specification)

SomeFaulty == \E i \in 1..Len(config_files) : Faulty(config_files[i])

\* C15: there is a Config only once load_config is done, every file of
\* the sequence was processed and none of them failed; when a file fails,
\* whatever its place in the sequence, the call ends with the error of a
\* validator, of the interpolation or of the specification version, and
\* with no Config.
C15_NoPartialConfig ==
    /\ pc # "done" => config = NoConfig
    /\ config.made =>
          /\ pc = "done"
          /\ Len(processed_files) = Len(config_files)
          /\ ~SomeFaulty
    /\ (Terminal /\ SomeFaulty) =>
          /\ pc = "raised"
          /\ raised \in {ValidationError, InterpolationError, SpecificationError}
          /\ ~config.made

\* The second file fails in interpolation after a first file that defines
\* libraries.
C15_Witness ==
    /\ pc = "raised"
    /\ raised = InterpolationError
    /\ Len(config_files) = 2
    /\ config_files[1].invalid = "none"
    /\ config_files[1].sections["libraries"] = Dict({"k1"})
    /\ config_files[2].invalid = "interpolation"
    /\ processed_files = <<config_files[1]>>
    /\ config = NoConfig

\* The files that have content.
WithContent == {i \in 1..Len(config_files) : ~config_files[i].is_none}

\* A file without content is returned as it is.
PassedThrough ==
    \A i \in 1..Len(processed_files) :
        config_files[i].is_none => processed_files[i] = config_files[i]

\* In a Config, every section is the one of the last file with content:
\* files without content change nothing.
ContributesNothing ==
    pc = "done" =>
        LET last == config_files[Latest(WithContent)] IN
        /\ \A s \in Sections \ {"name"} : ConfigField(config, s) = last.sections[s]
        /\ PyLen(last.sections["name"]) # 0 => config.name = last.sections["name"]

\* C16 as stated: a file without content is passed through unprocessed;
\* when it is the first file load_config fails with CannotReadKraftfile;
\* when it is a later file it contributes nothing to the merge.
C16_NoneFileCannotRead ==
    /\ PassedThrough
    /\ (Terminal /\ config_files[1].is_none) =>
          (pc = "raised" /\ raised = CannotReadKraftfile)
    /\ ContributesNothing

\* C16, amended: a file without content is passed through unprocessed;
\* when it is the first file load_config fails with no Config, with
\* CannotReadKraftfile when no later file fails in processing and with
\* that file's error otherwise; when it is a later file it contributes
\* nothing to the merge.
C16_NoneFileFailsAfterProcessing ==
    /\ PassedThrough
    /\ (Terminal /\ config_files[1].is_none) =>
          /\ pc = "raised" /\ ~config.made
          /\ ~SomeFaulty => raised = CannotReadKraftfile
          /\ SomeFaulty =>
                raised \in {ValidationError, InterpolationError, SpecificationError}
    /\ ContributesNothing

\* A first file without content before a valid file that defines libraries.
C16_Witness ==
    /\ pc = "raised"
    /\ raised = CannotReadKraftfile
    /\ Len(config_files) = 2
    /\ config_files[1].is_none
    /\ ~Faulty(config_files[2])
    /\ config_files[2].sections["libraries"] = Dict({"k1"})
    /\ processed_files[1] = config_files[1]

----------------------------------------------------------------------------
(* Executor (kraft/executor.py).  A Python value is [t, v]: t is its type  *)
(* ("str", "int", "list" or "none") and v its characters, or for a list    *)
(* its items, each a one-character str.                                    *)

MaxCalls == 2

TypeError == "TypeError"

Text(chars) == [t |-> "str", v |-> chars]
IntValue(digits) == [t |-> "int", v |-> digits]
List(items) == [t |-> "list", v |-> items]
None == [t |-> "none", v |-> <<>>]

QEMU_GUEST == Text(<<"q", "e", "m", "u", "-", "g", "u", "e", "s", "t">>)
XEN_GUEST == Text(<<"x", "e", "n", "-", "g", "u", "e", "s", "t">>)

\* Python's truth value: None, '', 0 and [] are false.
truthy(val) ==
    IF val.t = "int" THEN val.v # <<"0">> ELSE val.v # <<>>

\* What iterating a value yields; a value that is not iterable raises.
iterable(val) == val.t \in {"str", "list"}
iter(val) == [i \in 1..Len(val.v) |-> Text(<<val.v[i]>>)]

\* if initrd: self._cmd.extend(('-i', initrd))
add_initrd(cmd, initrd) ==
    IF truthy(initrd) THEN cmd \o <<Text(<<"-", "i">>), initrd>> ELSE cmd

\* if virtio_nic: self._cmd.extend(('-n', virtio_nic))
add_virtio_nic(cmd, virtio_nic) ==
    IF truthy(virtio_nic) THEN cmd \o <<Text(<<"-", "n">>), virtio_nic>> ELSE cmd

\* if bridge: self._cmd.extend(('-b', bridge))
add_bridge(cmd, bridge) ==
    IF truthy(bridge) THEN cmd \o <<Text(<<"-", "b">>), bridge>> ELSE cmd

\* if interface: self._cmd.extend(('-V', interface))
add_interface(cmd, interface) ==
    IF truthy(interface) THEN cmd \o <<Text(<<"-", "V">>), interface>> ELSE cmd

\* if block_storage: self._cmd.extend(('-d', block_storage))
add_block_storage(cmd, block_storage) ==
    IF truthy(block_storage) THEN cmd \o <<Text(<<"-", "d">>), block_storage>> ELSE cmd

\* if port and isinstance(port, int): self._cmd.extend(('-g', port))
open_gdb(cmd, port) ==
    IF truthy(port) /\ port.t = "int" THEN cmd \o <<Text(<<"-", "g">>), port>> ELSE cmd

\* Variant: execute() leaves the stored list as it is.
execute_options_discarded(cmd, extra_args, background, paused, dry_run) == cmd

\* The head of execute(): -X, -P, -D and ('-a', extra_args) appended to
\* self._cmd.
execute_options(cmd, extra_args, background, paused, dry_run) ==
    cmd \o (IF background THEN <<Text(<<"-", "X">>)>> ELSE <<>>)
        \o (IF paused THEN <<Text(<<"-", "P">>)>> ELSE <<>>)
        \o (IF dry_run THEN <<Text(<<"-", "D">>)>> ELSE <<>>)
        \o (IF truthy(extra_args) THEN <<Text(<<"-", "a">>), extra_args>> ELSE <<>>)

\* The rest of execute(): [exc, cmd], the command built for the platform
\* and given to subprocess.run, or the TypeError of cmd.extend(extra_args)
\* or of ' '.join(cmd).
launch(platform, kernel, cmd, extra_args) ==
    IF platform = "linuxu" /\ ~iterable(extra_args)
    THEN [exc |-> TypeError, cmd |-> <<>>]
    ELSE LET c == IF platform = "xen" THEN <<XEN_GUEST>> \o cmd
                  ELSE IF platform = "linuxu" THEN <<kernel>> \o iter(extra_args)
                  ELSE <<QEMU_GUEST>> \o cmd
         IN IF \E i \in 1..Len(c) : c[i].t # "str"
            THEN [exc |-> TypeError, cmd |-> <<>>]
            ELSE [exc |-> NoError, cmd |-> c]

Kernel == Text(<<"k", "e", "r", "n", "e", "l">>)
Eth0 == Text(<<"e", "t", "h", "0">>)
Port == <<"1", "2", "3", "4">>
OptionValues == {None, Text(<<>>), Eth0}
PortValues == {IntValue(<<"0">>), IntValue(Port), Text(Port)}
ExtraArgs == {None, Text(<<>>), Text(<<"a", "b">>), List(<<"x", "y">>)}

Call(op, arg, background, paused, dry_run) ==
    [op |-> op, arg |-> arg, background |-> background, paused |-> paused,
     dry_run |-> dry_run]

\* Executor(kernel, architecture, platform): self._cmd = ['-k', kernel]
InitExecutor ==
    /\ self_kernel \in {None, Kernel}
    /\ self_platform \in {"xen", "linuxu", "kvm"}
    /\ self_cmd = <<Text(<<"-", "k">>), self_kernel>>
    /\ calls = <<>>
    /\ cmd_before = self_cmd
    /\ run_cmd = <<>>
    /\ eraised = NoError
    /\ IdleConfig
    /\ IdleDiscovery
    /\ IdleProbe
    /\ IdleIsType
    /\ IdleLoadYaml

\* What a call that adds an option leaves, given the list it makes.
Added(op, arg, cmd) ==
    /\ Len(calls) < MaxCalls
    /\ self_cmd' = cmd
    /\ calls' = Append(calls, Call(op, arg, FALSE, FALSE, FALSE))
    /\ cmd_before' = self_cmd
    /\ eraised' = NoError
    /\ UNCHANGED <<self_kernel, self_platform, run_cmd>>
    /\ UNCHANGED <<cvars, dvars, pvars, tvars, yvars>>

AddInitrd == \E a \in OptionValues : Added("add_initrd", a, add_initrd(self_cmd, a))

AddVirtioNic ==
    \E a \in OptionValues : Added("add_virtio_nic", a, add_virtio_nic(self_cmd, a))

AddBridge == \E a \in OptionValues : Added("add_bridge", a, add_bridge(self_cmd, a))

AddInterface ==
    \E a \in OptionValues : Added("add_interface", a, add_interface(self_cmd, a))

AddBlockStorage ==
    \E a \in OptionValues : Added("add_block_storage", a, add_block_storage(self_cmd, a))

OpenGdb == \E a \in PortValues : Added("open_gdb", a, open_gdb(self_cmd, a))

\* execute(extra_args, background, paused, dry_run)
Execute ==
    \E extra_args \in ExtraArgs, background \in BOOLEAN, paused \in BOOLEAN,
       dry_run \in BOOLEAN :
        /\ Len(calls) < MaxCalls
        /\ self_cmd' = execute_options(self_cmd, extra_args, background, paused, dry_run)
        /\ LET l == launch(self_platform, self_kernel, self_cmd', extra_args)
           IN /\ run_cmd' = l.cmd
              /\ eraised' = l.exc
        /\ calls' = Append(calls, Call("execute", extra_args, background, paused, dry_run))
        /\ cmd_before' = self_cmd
        /\ UNCHANGED <<self_kernel, self_platform>>
        /\ UNCHANGED <<cvars, dvars, pvars, tvars, yvars>>

NextExecutor ==
    \/ AddInitrd \/ AddVirtioNic \/ AddBridge \/ AddInterface \/ AddBlockStorage
    \/ OpenGdb \/ Execute

SpecExecutor == InitExecutor /\ [][NextExecutor]_vars

----------------------------------------------------------------------------
(* Properties of the Executor.                                             *)

Falsy(val) == val \in {None, Text(<<>>), IntValue(<<"0">>), List(<<>>)}

\* The flag of each call that adds an option.
FlagOf(op) ==
    IF op = "add_initrd" THEN <<"-", "i">>
    ELSE IF op = "add_virtio_nic" THEN <<"-", "n">>
    ELSE IF op = "add_bridge" THEN <<"-", "b">>
    ELSE IF op = "add_interface" THEN <<"-", "V">>
    ELSE IF op = "add_block_storage" THEN <<"-", "d">>
    ELSE <<"-", "g">>

\* What one call appends to the option list.
Appended(c) ==
    IF c.op = "execute"
    THEN (IF c.background THEN <<Text(<<"-", "X">>)>> ELSE <<>>)
         \o (IF c.paused THEN <<Text(<<"-", "P">>)>> ELSE <<>>)
         \o (IF c.dry_run THEN <<Text(<<"-", "D">>)>> ELSE <<>>)
         \o (IF Falsy(c.arg) THEN <<>> ELSE <<Text(<<"-", "a">>), c.arg>>)
    ELSE IF Falsy(c.arg) \/ (c.op = "open_gdb" /\ c.arg.t # "int") THEN <<>>
    ELSE <<Text(FlagOf(c.op)), c.arg>>

\* What a sequence of calls appends, in call order.
RECURSIVE AppendedBy(_)
AppendedBy(cs) ==
    IF cs = <<>> THEN <<>>
    ELSE AppendedBy(SubSeq(cs, 1, Len(cs) - 1)) \o Appended(cs[Len(cs)])

\* The last call was an execute() that launched a command.
Launched ==
    /\ calls # <<>>
    /\ calls[Len(calls)].op = "execute"
    /\ eraised = NoError

\* C17: the option list is ['-k', kernel] followed by what every call so
\* far appended, in call order: a flag and its value for a truthy argument
\* (a truthy int for open_gdb), nothing for a falsy one, and -X, -P, -D, -a
\* for execute(); each call leaves the list it found as a prefix.  A
\* command launched on a platform other than linuxu holds the whole list,
\* so the flags of every earlier execute() too; a command launched on
\* linuxu is the kernel followed by the items of extra_args and nothing
\* of the list.
C17_OptionListAppendOnly ==
    /\ self_cmd = <<Text(<<"-", "k">>), self_kernel>> \o AppendedBy(calls)
    /\ calls # <<>> => self_cmd = cmd_before \o Appended(calls[Len(calls)])
    /\ (Launched /\ self_platform # "linuxu") =>
          /\ SubSeq(run_cmd, 2, Len(run_cmd)) = self_cmd
          /\ \A i \in 1..Len(calls) :
                calls[i].op = "execute" =>
                    \A k \in 1..Len(Appended(calls[i])) :
                        \E j \in 1..Len(run_cmd) : run_cmd[j] = Appended(calls[i])[k]
    /\ (Launched /\ self_platform = "linuxu") =>
          /\ run_cmd[1] = self_kernel
          /\ Len(run_cmd) = Len(calls[Len(calls)].arg.v) + 1
          /\ \A i \in 1..Len(calls[Len(calls)].arg.v) :
                run_cmd[i + 1] = Text(<<calls[Len(calls)].arg.v[i]>>)

\* A second execute() whose command still has the -X of the first.
C17_Witness ==
    /\ self_platform = "kvm"
    /\ self_kernel = Kernel
    /\ calls = <<Call("execute", None, TRUE, FALSE, FALSE),
                 Call("execute", None, FALSE, TRUE, FALSE)>>
    /\ eraised = NoError
    /\ run_cmd = <<QEMU_GUEST, Text(<<"-", "k">>), Kernel,
                   Text(<<"-", "X">>), Text(<<"-", "P">>)>>

====
